---- MODULE Spec2Model ----
(***************************************************************************)
(* Model of the multithreaded TCP server of src/src/server.rs: the accept  *)
(* loop (Server::run), the shutdown call (Server::stop), one worker thread *)
(* per accepted connection (the closure of Server::run driving             *)
(* Client::handle), and the Protobuf wire format the worker decodes and    *)
(* encodes with prost.                                                     *)
(*                                                                         *)
(* A payload is a sequence of bytes (0..255).  One read() delivers one     *)
(* payload, as the server assumes (one buffer, one decode).                *)
(***************************************************************************)
EXTENDS Integers, Sequences, FiniteSets, TLC

(***************************************************************************)
(* Bounds of the model.                                                    *)
(***************************************************************************)
MaxConns == 2
MaxSends == 2
MaxRuns == 2
NumStoppers == 2
MaxFaults == 1

(***************************************************************************)
(* Program constants.                                                      *)
(***************************************************************************)
BufferSize == 512

I32Max == 2147483647
I32Min == (-2147483647) - 1

(***************************************************************************)
(* Protobuf wire format (prost).  A key is (field number * 8 + wire type). *)
(***************************************************************************)
\* Wire types: 0 varint, 1 64-bit, 2 length-delimited, 3 group start,
\* 4 group end, 5 32-bit.
Pow2(n) == 2 ^ n

\* prost::encoding::encode_varint for 0 <= n <= I32Max.
RECURSIVE EncodeVarint(_)
EncodeVarint(n) ==
    IF n < 128 THEN <<n>>
    ELSE <<(n % 128) + 128>> \o EncodeVarint(n \div 128)

\* prost::encoding::int32::encode: the value is sign-extended to 64 bits
\* (v as u64), so a negative value takes ten bytes.
EncodeInt32(v) ==
    IF v >= 0 THEN EncodeVarint(v)
    ELSE LET u == (v + I32Max) + 1   \* the low 31 bits of v
         IN  << (u % 128) + 128,
                ((u \div Pow2(7)) % 128) + 128,
                ((u \div Pow2(14)) % 128) + 128,
                ((u \div Pow2(21)) % 128) + 128,
                (u \div Pow2(28)) + 120 + 128,
                255, 255, 255, 255, 1 >>

\* The number of bytes of the varint starting at position i of bytes (it
\* ends with the first byte below 128), or 0 when the buffer ends inside it
\* or it is longer than ten bytes.
VarintLen(bytes, i) ==
    LET ends == {j \in i..(i + 9) : j <= Len(bytes) /\ bytes[j] < 128}
    IN  IF ends = {} THEN 0
        ELSE (CHOOSE j \in ends : \A e \in ends : j <= e) - i + 1

\* The 7-bit group k (0-based) of the varint at position i, 0 past its end.
VarintGroup(bytes, i, len, k) ==
    IF k < len THEN bytes[i + k] % 128 ELSE 0

\* prost decode_varint followed by `as i32`: the low 32 bits, two's
\* complement.
VarintAsI32(bytes, i, len) ==
    LET g(k) == VarintGroup(bytes, i, len, k)
        low == g(0) + g(1) * Pow2(7) + g(2) * Pow2(14) + g(3) * Pow2(21)
               + (g(4) % 8) * Pow2(28)
        neg == (g(4) \div 8) % 2 = 1
    IN  IF neg THEN (low - I32Max) - 1 ELSE low

\* Whether the varint at i has a bit set above bit 30 (as a key or a length
\* it is then out of the range this model gives a value to).
VarintIsLarge(bytes, i, len) ==
    \/ VarintGroup(bytes, i, len, 4) \div 8 > 0
    \/ \E k \in 5..9 : VarintGroup(bytes, i, len, k) > 0

\* Bytes that are valid UTF-8: the model covers ASCII text; a byte >= 128
\* occurs in its payloads only as a lone byte, which is never valid UTF-8.
Utf8Valid(s) == \A k \in 1..Len(s) : s[k] < 128

\* prost::encoding::skip_field for an unknown field whose key has been
\* read; i is the position after the key.  Returns the position after the
\* field, or 0 on a decode error.  Groups are not modelled (no payload of
\* the model holds one): a group start or end is a decode error here.
SkipField(bytes, i, wt) ==
    IF wt = 0 THEN
        LET len == VarintLen(bytes, i)
        IN  IF len = 0 THEN 0 ELSE i + len
    ELSE IF wt = 1 THEN
        IF i + 8 > Len(bytes) + 1 THEN 0 ELSE i + 8
    ELSE IF wt = 5 THEN
        IF i + 4 > Len(bytes) + 1 THEN 0 ELSE i + 4
    ELSE IF wt = 2 THEN
        LET len == VarintLen(bytes, i)
            n == VarintAsI32(bytes, i, len)
        IN  IF len = 0 \/ VarintIsLarge(bytes, i, len) THEN 0
            ELSE IF i + len + n > Len(bytes) + 1 THEN 0
            ELSE i + len + n
    ELSE 0

\* prost::encoding::decode_key at position i: [ok, tag, wt, next].
DecodeKey(bytes, i) ==
    LET len == VarintLen(bytes, i)
        key == VarintAsI32(bytes, i, len)
    IN  IF len = 0 \/ VarintIsLarge(bytes, i, len) \/ key % 8 > 5 \/ key \div 8 = 0
        THEN [ok |-> FALSE, tag |-> 0, wt |-> 0, next |-> 0]
        ELSE [ok |-> TRUE, tag |-> key \div 8, wt |-> key % 8, next |-> i + len]

(***************************************************************************)
(* The message types of crate::message (prost-generated; the field numbers *)
(* follow the order the fields are listed in).                             *)
(*   EchoMessage { content: string = 1 }                                   *)
(*   AddRequest  { a: int32 = 1, b: int32 = 2 }                            *)
(*   AddResponse { result: int32 = 1 }                                     *)
(*   ClientMessage { oneof: EchoMessage = 1, AddRequest = 2 }              *)
(* Text is a sequence of ASCII codes.                                      *)
(***************************************************************************)
DecodeError == [ok |-> FALSE]

\* EchoMessage::decode: the merge loop over the fields of the buffer.
RECURSIVE EchoMerge(_, _, _)
EchoMerge(bytes, i, content) ==
    IF i > Len(bytes) THEN [ok |-> TRUE, content |-> content]
    ELSE LET k == DecodeKey(bytes, i)
         IN  IF ~k.ok THEN DecodeError
             ELSE IF k.tag = 1 THEN
                 LET len == VarintLen(bytes, k.next)
                     n == VarintAsI32(bytes, k.next, len)
                     from == k.next + len
                 IN  IF k.wt # 2 \/ len = 0 \/ VarintIsLarge(bytes, k.next, len)
                        THEN DecodeError
                     ELSE IF from + n > Len(bytes) + 1 THEN DecodeError
                     ELSE IF ~Utf8Valid(SubSeq(bytes, from, from + n - 1))
                        THEN DecodeError
                     ELSE EchoMerge(bytes, from + n,
                                    SubSeq(bytes, from, from + n - 1))
             ELSE LET j == SkipField(bytes, k.next, k.wt)
                  IN  IF j = 0 THEN DecodeError
                      ELSE EchoMerge(bytes, j, content)

DecodeEcho(bytes) == EchoMerge(bytes, 1, <<>>)

\* EchoMessage::encode_to_vec: proto3 leaves a default (empty) field out.
EncodeEcho(content) ==
    IF content = <<>> THEN <<>>
    ELSE <<10>> \o EncodeVarint(Len(content)) \o content

\* AddRequest::decode.
RECURSIVE AddMerge(_, _, _, _)
AddMerge(bytes, i, a, b) ==
    IF i > Len(bytes) THEN [ok |-> TRUE, a |-> a, b |-> b]
    ELSE LET k == DecodeKey(bytes, i)
         IN  IF ~k.ok THEN DecodeError
             ELSE IF k.tag \in {1, 2} THEN
                 LET len == VarintLen(bytes, k.next)
                     v == VarintAsI32(bytes, k.next, len)
                 IN  IF k.wt # 0 \/ len = 0 THEN DecodeError
                     ELSE IF k.tag = 1
                        THEN AddMerge(bytes, k.next + len, v, b)
                        ELSE AddMerge(bytes, k.next + len, a, v)
             ELSE LET j == SkipField(bytes, k.next, k.wt)
                  IN  IF j = 0 THEN DecodeError
                      ELSE AddMerge(bytes, j, a, b)

DecodeAdd(bytes) == AddMerge(bytes, 1, 0, 0)

\* AddRequest::encode_to_vec: zero fields are left out.
EncodeAdd(a, b) ==
    (IF a = 0 THEN <<>> ELSE <<8>> \o EncodeInt32(a))
    \o (IF b = 0 THEN <<>> ELSE <<16>> \o EncodeInt32(b))

\* AddResponse::decode, as a peer reads a response.
RECURSIVE AddResponseMerge(_, _, _)
AddResponseMerge(bytes, i, result) ==
    IF i > Len(bytes) THEN [ok |-> TRUE, result |-> result]
    ELSE LET k == DecodeKey(bytes, i)
         IN  IF ~k.ok THEN DecodeError
             ELSE IF k.tag = 1 THEN
                 LET len == VarintLen(bytes, k.next)
                 IN  IF k.wt # 0 \/ len = 0 THEN DecodeError
                     ELSE AddResponseMerge(bytes, k.next + len,
                                           VarintAsI32(bytes, k.next, len))
             ELSE LET j == SkipField(bytes, k.next, k.wt)
                  IN  IF j = 0 THEN DecodeError
                      ELSE AddResponseMerge(bytes, j, result)

DecodeAddResponse(bytes) == AddResponseMerge(bytes, 1, 0)

\* client_message::Message::encode of the test client: the oneof variant
\* as a length-delimited field, written even when its body is empty.
EnvelopeEcho(content) ==
    LET body == EncodeEcho(content)
    IN  <<10>> \o EncodeVarint(Len(body)) \o body

EnvelopeAdd(a, b) ==
    LET body == EncodeAdd(a, b)
    IN  <<18>> \o EncodeVarint(Len(body)) \o body

(***************************************************************************)
(* The payloads a peer sends in the model: raw and enveloped messages, the *)
(* edge cases of the wire format, and one undecodable payload.             *)
(***************************************************************************)
TextA == <<65>>

BadPayload == <<10, 5, 65>>   \* a length that runs past the end of the buffer

Payloads ==
    { EncodeEcho(TextA),       \* EchoMessage{"A"}
      EnvelopeEcho(TextA),     \* the test client's envelope around it
      EnvelopeEcho(<<>>),      \* EchoMessage{""}: the bytes 0A 00
      EncodeAdd(10, 20),
      EncodeAdd(0, 20),        \* a = 0 is left out of the encoding
      EncodeAdd(-1, 1),        \* the sum is 0
      EncodeAdd(I32Max, 1),    \* the sum overflows
      EnvelopeAdd(10, 20),
      BadPayload }

Conns == 1..MaxConns
Stoppers == 1..NumStoppers

(***************************************************************************)
(* What the callers, the peers and the network do is bounded by one of     *)
(* five workloads, chosen at the start; the server's code is the same      *)
(* under each.                                                             *)
(*   "protocol":  one connection, every payload of the model, I/O          *)
(*                failures, no stop();                                     *)
(*   "clients":   several connections that stay open, two kinds of        *)
(*                payload, no stop();                                      *)
(*   "failures":  several connections, one request, valid or not, one I/O  *)
(*                failure, no stop();                                      *)
(*   "shutdown":  several connections, one payload, one stop() call;       *)
(*   "lifecycle": repeated run() calls, several stop() callers, one        *)
(*                connection, one payload, I/O failures.                   *)
(***************************************************************************)
Workloads == {"protocol", "clients", "failures", "shutdown", "lifecycle"}

ConnsOf(w) ==
    IF w \in {"clients", "failures", "shutdown"} THEN MaxConns ELSE 1
SendsOf(w) == IF w \in {"protocol", "clients"} THEN MaxSends ELSE 1
PayloadsOf(w) ==
    IF w = "protocol" THEN Payloads
    ELSE IF w = "clients" THEN {EncodeEcho(TextA), EncodeAdd(10, 20)}
    ELSE IF w = "failures" THEN {EncodeEcho(TextA), BadPayload}
    ELSE {EncodeEcho(TextA)}
RunsOf(w) == IF w = "lifecycle" THEN MaxRuns ELSE 1
StoppersOf(w) ==
    IF w = "lifecycle" THEN NumStoppers ELSE IF w = "shutdown" THEN 1 ELSE 0
FaultsOf(w) ==
    IF w \in {"clients", "shutdown"} THEN 0
    ELSE IF w = "failures" /\ MaxFaults > 0 THEN 1
    ELSE MaxFaults
PeersClose(w) == w # "clients"

VARIABLES
    load,           \* the workload
    is_running,     \* Server.is_running, the shared AtomicBool
    runPc,          \* the thread calling Server::run: where it is
    runs,           \* how many times run() has been called
    backlog,        \* connections the listener holds, not yet accepted
    stopPc,         \* each thread calling Server::stop: where it is
    stopInRun,      \* per stop() call: made during the run() call now current
    stoppedSinceRun,\* a stop() made during the current run() call has returned
    cleared,        \* stop() has stored false into the flag at least once
    peer,           \* the peer's end of each connection
    inbox,          \* payloads sent by the peer and not yet read by the server
    sends,          \* how many payloads the peers have sent
    wpc,            \* the worker thread of each connection: where it is
    wexit,          \* why a worker's loop ended
    out,            \* the payloads written to each connection, in order
    hist,           \* the non-empty payloads read from each connection, in order
    lastRead,       \* how the latest read of each connection ended
    acceptFailed,   \* accept() has failed with an error other than WouldBlock
    acceptedIn,     \* per connection: what held when accept() returned it
    faults          \* how many I/O failures the environment has injected

vars == << load, is_running, runPc, runs, backlog, stopPc, stopInRun,
           stoppedSinceRun, cleared, peer, inbox, sends, wpc, wexit,
           out, hist, lastRead, acceptFailed, acceptedIn, faults >>

serverVars == << is_running, runPc, runs, backlog, acceptFailed, acceptedIn >>
stopVars == << stopPc, stopInRun, stoppedSinceRun, cleared >>
peerVars == << load, peer, inbox, sends, faults >>
workerVars == << wpc, wexit, out, hist, lastRead >>

\* Server::new: the listener is bound and the flag is false.
Init ==
    /\ load \in Workloads
    /\ is_running = FALSE
    /\ runPc = "idle"
    /\ runs = 0
    /\ backlog = <<>>
    /\ stopPc = [t \in Stoppers |-> "idle"]
    /\ stopInRun = [t \in Stoppers |-> FALSE]
    /\ stoppedSinceRun = FALSE
    /\ cleared = FALSE
    /\ peer = [c \in Conns |-> "unused"]
    /\ inbox = [c \in Conns |-> <<>>]
    /\ sends = 0
    /\ wpc = [c \in Conns |-> "none"]
    /\ wexit = [c \in Conns |-> "none"]
    /\ out = [c \in Conns |-> <<>>]
    /\ hist = [c \in Conns |-> <<>>]
    /\ lastRead = [c \in Conns |-> "none"]
    /\ acceptFailed = FALSE
    /\ acceptedIn = [c \in Conns |-> {}]
    /\ faults = 0

(***************************************************************************)
(* Server::run, on the thread that calls it.                               *)
(***************************************************************************)
\* run() is called (main, or the thread of setup_server_thread).
RunCall ==
    /\ runPc \in {"idle", "done"}
    /\ runs < RunsOf(load)
    /\ runPc' = "store"
    /\ runs' = runs + 1
    /\ stoppedSinceRun' = FALSE
    /\ stopInRun' = [t \in Stoppers |-> FALSE]
    /\ UNCHANGED << is_running, backlog, acceptFailed, acceptedIn, stopPc, cleared,
                    peerVars, workerVars >>

\* is_running.store(true), then local_addr and set_nonblocking.
RunStore ==
    /\ runPc = "store"
    /\ is_running' = TRUE
    /\ runPc' = "loop"
    /\ UNCHANGED << runs, backlog, acceptFailed, acceptedIn, stopVars, peerVars, workerVars >>

\* while self.is_running.load(..): enter the body, or leave and return Ok.
RunLoop ==
    /\ runPc = "loop"
    /\ runPc' = IF is_running THEN "accept" ELSE "done"
    /\ UNCHANGED << is_running, runs, backlog, acceptFailed, acceptedIn, stopVars,
                    peerVars, workerVars >>

\* A faulty accept loop: it serves one connection at a time, taking the
\* next one only when no worker is alive (as if it joined each worker).
RunAcceptOkJoins ==
    /\ runPc = "accept"
    /\ backlog # <<>>
    /\ \A c \in Conns : wpc[c] \in {"none", "exited"}
    /\ wpc' = [wpc EXCEPT ![Head(backlog)] = "init"]
    /\ acceptedIn' = [acceptedIn EXCEPT ![Head(backlog)] =
                         (IF is_running THEN {} ELSE {"flag_false"})
                         \cup (IF acceptFailed THEN {"after_error"} ELSE {})]
    /\ backlog' = Tail(backlog)
    /\ runPc' = "loop"
    /\ UNCHANGED << is_running, runs, acceptFailed, stopVars, peerVars,
                    wexit, out, hist, lastRead >>

\* accept() returns a connection: a worker thread is spawned for it and
\* the loop goes on without waiting for it.
RunAcceptOk ==
    /\ runPc = "accept"
    /\ backlog # <<>>
    /\ wpc' = [wpc EXCEPT ![Head(backlog)] = "init"]
    /\ acceptedIn' = [acceptedIn EXCEPT ![Head(backlog)] =
                         (IF is_running THEN {} ELSE {"flag_false"})
                         \cup (IF acceptFailed THEN {"after_error"} ELSE {})]
    /\ backlog' = Tail(backlog)
    /\ runPc' = "loop"
    /\ UNCHANGED << is_running, runs, acceptFailed, stopVars, peerVars,
                    wexit, out, hist, lastRead >>

\* accept() returns WouldBlock: sleep 100 ms, loop.
RunAcceptWouldBlock ==
    /\ runPc = "accept"
    /\ backlog = <<>>
    /\ runPc' = "loop"
    /\ UNCHANGED << is_running, runs, backlog, acceptFailed, acceptedIn, stopVars,
                    peerVars, workerVars >>

\* A faulty accept loop: an accept() error is returned from run() (a ?
\* on accept).
RunAcceptErrorReturns ==
    /\ runPc = "accept"
    /\ faults < FaultsOf(load)
    /\ faults' = faults + 1
    /\ acceptFailed' = TRUE
    /\ runPc' = "done"
    /\ UNCHANGED << is_running, runs, backlog, acceptedIn, stopVars, load,
                    peer, inbox, sends, workerVars >>

\* accept() returns another error: it is logged, loop.
RunAcceptError ==
    /\ runPc = "accept"
    /\ faults < FaultsOf(load)
    /\ faults' = faults + 1
    /\ acceptFailed' = TRUE
    /\ runPc' = "loop"
    /\ UNCHANGED << is_running, runs, backlog, acceptedIn, stopVars, load,
                    peer, inbox, sends, workerVars >>

(***************************************************************************)
(* Server::stop, on any thread that holds the server.                      *)
(***************************************************************************)
\* Each caller calls stop() once, the callers in order of their numbers (a
\* second call by one thread is the call of the next thread, made after
\* the first has returned).
StopCall(t) ==
    /\ stopPc[t] = "idle"
    /\ t <= StoppersOf(load)
    /\ \A u \in Stoppers : u < t => stopPc[u] # "idle"
    /\ stopPc' = [stopPc EXCEPT ![t] = "load"]
    /\ stopInRun' = [stopInRun EXCEPT ![t] = runPc \notin {"idle", "done"}]
    /\ UNCHANGED << stoppedSinceRun, cleared, serverVars, peerVars,
                    workerVars >>

\* stop() returns: note whether it was made during the run() call that is
\* still the current one.
StopReturns(t) ==
    /\ stoppedSinceRun' = (stoppedSinceRun \/ stopInRun[t])
    /\ stopInRun' = [stopInRun EXCEPT ![t] = FALSE]

\* A faulty stop(): it stores false whatever the flag is.
StopLoadAlwaysStores(t) ==
    /\ stopPc[t] = "load"
    /\ stopPc' = [stopPc EXCEPT ![t] = "store"]
    /\ UNCHANGED << stoppedSinceRun, stopInRun, cleared, serverVars,
                    peerVars, workerVars >>

\* if self.is_running.load(..): go on to the store, or warn and return.
StopLoad(t) ==
    /\ stopPc[t] = "load"
    /\ IF is_running
          THEN /\ stopPc' = [stopPc EXCEPT ![t] = "store"]
               /\ UNCHANGED << stoppedSinceRun, stopInRun >>
          ELSE /\ stopPc' = [stopPc EXCEPT ![t] = "returned"]
               /\ StopReturns(t)
    /\ UNCHANGED << cleared, serverVars, peerVars, workerVars >>

\* A faulty stop(): it flips the flag instead of clearing it.
StopStoreToggles(t) ==
    /\ stopPc[t] = "store"
    /\ is_running' = ~is_running
    /\ cleared' = TRUE
    /\ stopPc' = [stopPc EXCEPT ![t] = "returned"]
    /\ StopReturns(t)
    /\ UNCHANGED << runPc, runs, backlog, acceptFailed, acceptedIn, peerVars,
                    workerVars >>

\* A faulty stop(): it also shuts every accepted connection down, ending
\* the workers.
StopStoreClosesConns(t) ==
    /\ stopPc[t] = "store"
    /\ is_running' = FALSE
    /\ cleared' = TRUE
    /\ stopPc' = [stopPc EXCEPT ![t] = "returned"]
    /\ StopReturns(t)
    /\ wpc' = [c \in Conns |->
                 IF wpc[c] \in {"init", "check", "handle"} THEN "exited"
                 ELSE wpc[c]]
    /\ UNCHANGED << runPc, runs, backlog, acceptFailed, acceptedIn, peerVars, wexit, out,
                    hist, lastRead >>

\* self.is_running.store(false), then try_clone of the listener (the clone
\* is dropped at once) and return.
StopStore(t) ==
    /\ stopPc[t] = "store"
    /\ is_running' = FALSE
    /\ cleared' = TRUE
    /\ stopPc' = [stopPc EXCEPT ![t] = "returned"]
    /\ StopReturns(t)
    /\ UNCHANGED << runPc, runs, backlog, acceptFailed, acceptedIn, peerVars,
                    workerVars >>

(***************************************************************************)
(* The peers.                                                              *)
(***************************************************************************)
\* A peer connects: the bound listener queues the connection, whether or
\* not run() is accepting.
Connect(c) ==
    /\ peer[c] = "unused"
    /\ c <= ConnsOf(load)
    /\ \A d \in Conns : d < c => peer[d] # "unused"
    /\ peer' = [peer EXCEPT ![c] = "open"]
    /\ backlog' = Append(backlog, c)
    /\ UNCHANGED << is_running, runPc, runs, acceptFailed, acceptedIn, stopVars, load,
                    inbox, sends, faults, workerVars >>

Send(c, p) ==
    /\ peer[c] = "open"
    /\ wpc[c] # "exited"
    /\ sends < SendsOf(load)
    /\ p \in PayloadsOf(load)
    /\ inbox' = [inbox EXCEPT ![c] = Append(@, p)]
    /\ sends' = sends + 1
    /\ UNCHANGED << load, peer, faults, serverVars, stopVars, workerVars >>

\* The peer shuts its end down: once the inbox is drained, reads return 0.
Close(c) ==
    /\ peer[c] = "open"
    /\ PeersClose(load)
    /\ peer' = [peer EXCEPT ![c] = "closed"]
    /\ UNCHANGED << load, inbox, sends, faults, serverVars, stopVars,
                    workerVars >>

(***************************************************************************)
(* The worker thread of one accepted connection: Client::new, then         *)
(* Client::handle while the flag is true.  One call of handle() is one     *)
(* step: the read, the decoding and the write of the reply.                *)
(***************************************************************************)
\* A faulty write: every worker writes to the stream of connection 1.
WriteAllToFirst(o, c, payload) ==
    IF payload = <<>> THEN o ELSE [o EXCEPT ![1] = Append(@, payload)]

\* A faulty write: the reply is queued ahead of the earlier ones.
WriteAllAhead(o, c, payload) ==
    IF payload = <<>> THEN o ELSE [o EXCEPT ![c] = <<payload>> \o @]

\* stream.write_all(&payload) and flush: the bytes reach the peer as one
\* payload; writing no bytes sends nothing.
WriteAll(o, c, payload) ==
    IF payload = <<>> THEN o ELSE [o EXCEPT ![c] = Append(@, payload)]

\* add_request.a + add_request.b on i32.
Overflows(a, b) ==
    \/ b > 0 /\ a > I32Max - b
    \/ b < 0 /\ a < I32Min - b

\* The sum as a build without overflow checks computes it (two's complement).
WrappingAdd(a, b) ==
    IF b > 0 /\ a > I32Max - b THEN ((a - I32Max) - 1) + ((b - I32Max) - 1)
    ELSE IF b < 0 /\ a < I32Min - b THEN ((a + I32Max) + 1) + ((b + I32Max) + 1)
    ELSE a + b

\* What EchoMessage::decode and AddRequest::decode return for each payload
\* of the model: decoding is a function of the bytes alone, so it is
\* computed once for each payload.
Decoded ==
    {[bytes |-> p, echo |-> DecodeEcho(p), add |-> DecodeAdd(p)] :
        p \in Payloads}

\* The results of the two decoders for the bytes p just read.
DecodedAs(p) == CHOOSE d \in Decoded : d.bytes = p

\* The payload handle() writes for the EchoMessage m it decoded.
EchoReply(m) == EncodeEcho(m.content)

\* The payload handle() writes for a sum: AddRequest { a: sum, b: 0 }.
AddReply(sum) == EncodeAdd(sum, 0)

\* A faulty end of a worker: it takes every other worker down with it.
WorkerExitsEndsAll(c, why) ==
    /\ wpc' = [d \in Conns |->
                 IF d = c \/ wpc[d] \in {"init", "check", "handle"}
                    THEN "exited" ELSE wpc[d]]
    /\ wexit' = [wexit EXCEPT ![c] = why]

\* The worker's loop ends; the stream is dropped with the Client.
WorkerExits(c, why) ==
    /\ wpc' = [wpc EXCEPT ![c] = "exited"]
    /\ wexit' = [wexit EXCEPT ![c] = why]

\* handle() returns Ok(()) to the worker's loop.
HandleReturnsOk(c) ==
    /\ wpc' = [wpc EXCEPT ![c] = "check"]
    /\ UNCHANGED wexit

\* Client::new succeeds: the read timeout is set.
ClientNewOk(c) ==
    /\ wpc[c] = "init"
    /\ wpc' = [wpc EXCEPT ![c] = "check"]
    /\ UNCHANGED << wexit, out, hist, lastRead,
                    serverVars, stopVars, peerVars >>

\* Client::new fails: the error is logged and the thread ends.
ClientNewFails(c) ==
    /\ wpc[c] = "init"
    /\ faults < FaultsOf(load)
    /\ faults' = faults + 1
    /\ WorkerExits(c, "init_error")
    /\ UNCHANGED << out, hist, lastRead, serverVars, stopVars,
                    load, peer, inbox, sends >>

\* while is_running.load(..): call handle(), or leave the loop.
WorkerCheck(c) ==
    /\ wpc[c] = "check"
    /\ IF is_running
          THEN wpc' = [wpc EXCEPT ![c] = "handle"] /\ UNCHANGED wexit
          ELSE WorkerExits(c, "flag")
    /\ UNCHANGED << out, hist, lastRead, serverVars, stopVars,
                    peerVars >>

\* What every read of connection c records.
ReadEnds(c, how) == lastRead' = [lastRead EXCEPT ![c] = how]

\* The bytes a read() of connection c returns when some have come: at most
\* the buffer's size of the payload at the head.
Received(c) ==
    LET p == Head(inbox[c])
    IN  SubSeq(p, 1, IF Len(p) < BufferSize THEN Len(p) ELSE BufferSize)

\* read() returns n > 0 bytes.
ReadsData(c) ==
    /\ wpc[c] = "handle"
    /\ inbox[c] # <<>>
    /\ hist' = [hist EXCEPT ![c] = Append(@, Received(c))]
    /\ inbox' = [inbox EXCEPT ![c] = Tail(@)]
    /\ ReadEnds(c, "data")

\* A faulty write of a reply: a failure of write_all is dropped and
\* handle() returns Ok(()) all the same.
ReplyDropsError(c, payload) ==
    \/ /\ out' = WriteAll(out, c, payload)
       /\ HandleReturnsOk(c)
       /\ UNCHANGED faults
    \/ /\ payload # <<>>
       /\ faults < FaultsOf(load)
       /\ faults' = faults + 1
       /\ HandleReturnsOk(c)
       /\ UNCHANGED out

\* The write of a reply: it succeeds and handle() returns Ok(()), or it
\* fails (only a write of some bytes can) and the ? returns the error, on
\* which the worker's loop breaks.
Reply(c, payload) ==
    \/ /\ out' = WriteAll(out, c, payload)
       /\ HandleReturnsOk(c)
       /\ UNCHANGED faults
    \/ /\ payload # <<>>
       /\ faults < FaultsOf(load)
       /\ faults' = faults + 1
       /\ WorkerExits(c, "error")
       /\ UNCHANGED out

\* A faulty handle(): AddRequest is tried first, so bytes that decode as
\* both messages are answered with the sum.
HandleEchoAddFirst(c) ==
    /\ ReadsData(c)
    /\ DecodedAs(Received(c)).echo.ok
    /\ LET d == DecodedAs(Received(c))
       IN  Reply(c, IF d.add.ok
                       THEN AddReply(WrappingAdd(d.add.a, d.add.b))
                       ELSE EchoReply(d.echo))
    /\ UNCHANGED << serverVars, stopVars, load, peer, sends >>

\* The bytes decode as an EchoMessage: it is encoded and written back.
HandleEcho(c) ==
    /\ ReadsData(c)
    /\ DecodedAs(Received(c)).echo.ok
    /\ Reply(c, EchoReply(DecodedAs(Received(c)).echo))
    /\ UNCHANGED << serverVars, stopVars, load, peer, sends >>

\* The bytes decode as an AddRequest and not as an EchoMessage: the sum is
\* written back.  On overflow the addition panics (a build with overflow
\* checks: the thread dies) or wraps (a build without).
HandleAdd(c) ==
    /\ ReadsData(c)
    /\ ~DecodedAs(Received(c)).echo.ok
    /\ DecodedAs(Received(c)).add.ok
    /\ LET req == DecodedAs(Received(c)).add
       IN  \/ Reply(c, AddReply(WrappingAdd(req.a, req.b)))
           \/ /\ Overflows(req.a, req.b)
              /\ WorkerExits(c, "panic")
              /\ UNCHANGED << out, faults >>
    /\ UNCHANGED << serverVars, stopVars, load, peer, sends >>

\* A faulty handle(): an undecodable payload is answered, with the bytes
\* that were read.
HandleUnknownReplies(c) ==
    /\ ReadsData(c)
    /\ ~DecodedAs(Received(c)).echo.ok
    /\ ~DecodedAs(Received(c)).add.ok
    /\ Reply(c, Received(c))
    /\ UNCHANGED << serverVars, stopVars, load, peer, sends >>

\* A faulty handle(): an undecodable payload is returned as an error, on
\* which the worker's loop breaks.
HandleUnknownBreaks(c) ==
    /\ ReadsData(c)
    /\ ~DecodedAs(Received(c)).echo.ok
    /\ ~DecodedAs(Received(c)).add.ok
    /\ WorkerExits(c, "error")
    /\ UNCHANGED << out, faults, serverVars, stopVars, load, peer, sends >>

\* The bytes decode as neither: a warning is logged, handle() returns Ok(()).
HandleUnknown(c) ==
    /\ ReadsData(c)
    /\ ~DecodedAs(Received(c)).echo.ok
    /\ ~DecodedAs(Received(c)).add.ok
    /\ HandleReturnsOk(c)
    /\ UNCHANGED << out, faults, serverVars, stopVars, load, peer, sends >>

\* read() returns 0: "Client disconnected." is logged and handle() returns
\* Ok(()).
HandleEof(c) ==
    /\ wpc[c] = "handle"
    /\ inbox[c] = <<>>
    /\ peer[c] = "closed"
    /\ ReadEnds(c, "eof")
    /\ HandleReturnsOk(c)
    /\ UNCHANGED << out, hist, serverVars, stopVars, peerVars >>

\* A faulty handle(): a timed-out read is returned as an error, on which
\* the worker's loop breaks.
HandleTimeoutBreaks(c) ==
    /\ wpc[c] = "handle"
    /\ inbox[c] = <<>>
    /\ peer[c] = "open"
    /\ ReadEnds(c, "timeout")
    /\ WorkerExits(c, "error")
    /\ UNCHANGED << out, hist, serverVars, stopVars, peerVars >>

\* read() times out after 10 s (WouldBlock): sleep 100 ms, return Ok(()).
HandleTimeout(c) ==
    /\ wpc[c] = "handle"
    /\ inbox[c] = <<>>
    /\ peer[c] = "open"
    /\ ReadEnds(c, "timeout")
    /\ HandleReturnsOk(c)
    /\ UNCHANGED << out, hist, serverVars, stopVars, peerVars >>

\* read() fails with another error: it is logged, and handle() falls
\* through to its final Ok(()).
HandleReadError(c) ==
    /\ wpc[c] = "handle"
    /\ faults < FaultsOf(load)
    /\ faults' = faults + 1
    /\ ReadEnds(c, "error")
    /\ HandleReturnsOk(c)
    /\ UNCHANGED << out, hist, serverVars, stopVars, load, peer, inbox, sends >>

RunStep ==
    \/ RunStore
    \/ RunLoop
    \/ RunAcceptOk
    \/ RunAcceptWouldBlock
    \/ RunAcceptError

StopStep(t) ==
    \/ StopLoad(t)
    \/ StopStore(t)

WorkerStep(c) ==
    \/ ClientNewOk(c)
    \/ ClientNewFails(c)
    \/ WorkerCheck(c)
    \/ HandleEcho(c)
    \/ HandleAdd(c)
    \/ HandleUnknown(c)
    \/ HandleEof(c)
    \/ HandleTimeout(c)
    \/ HandleReadError(c)

Next ==
    \/ RunCall
    \/ RunStep
    \/ \E t \in Stoppers : StopCall(t) \/ StopStep(t)
    \/ \E c \in Conns : Connect(c) \/ Close(c) \/ WorkerStep(c)
    \/ \E c \in Conns, p \in Payloads : Send(c, p)

Spec == Init /\ [][Next]_vars

\* Every thread that has started keeps being scheduled; the callers of
\* run() and stop() and the peers are free to do nothing.
FairSpec ==
    /\ Spec
    /\ WF_vars(RunStep)
    /\ \A t \in Stoppers : WF_vars(StopStep(t))
    /\ \A c \in Conns : WF_vars(WorkerStep(c))

(***************************************************************************)
(* Properties.                                                             *)
(***************************************************************************)
Last(q) == q[Len(q)]
Front(q) == SubSeq(q, 1, Len(q) - 1)

\* A step in which the worker of c completes a call of handle().
HandleStep(c) == wpc[c] = "handle" /\ wpc'[c] # "handle"

\* A step in which handle() reads a payload from c and returns Ok(()).
HandledOk(c) ==
    /\ HandleStep(c)
    /\ Len(hist'[c]) = Len(hist[c]) + 1
    /\ wpc'[c] = "check"

\* A step of a stop() call of thread t.
StopActs(t) == stopPc[t] \in {"load", "store"} /\ stopPc'[t] # stopPc[t]

\* The reply the peer is owed for the payload p, <<>> for none.
ReplyTo(p) ==
    LET d == DecodedAs(p)
    IN  IF d.echo.ok THEN EchoReply(d.echo)
        ELSE IF d.add.ok THEN AddReply(WrappingAdd(d.add.a, d.add.b))
        ELSE <<>>

\* The replies to the payloads of h, in order.
RECURSIVE RepliesTo(_)
RepliesTo(h) ==
    IF h = <<>> THEN <<>>
    ELSE IF ReplyTo(Head(h)) = <<>> THEN RepliesTo(Tail(h))
    ELSE <<ReplyTo(Head(h))>> \o RepliesTo(Tail(h))

\* C1: whenever a worker reads, while the server is running, a payload that
\* decodes as an EchoMessage m (and its write does not fail), exactly one
\* payload is written to that connection and to no other, and it decodes as
\* an EchoMessage with m's content.
C1_EchoAnswered ==
    [][\A c \in Conns :
         (is_running /\ HandledOk(c) /\ DecodeEcho(Last(hist'[c])).ok) =>
            /\ Len(out'[c]) = Len(out[c]) + 1
            /\ DecodeEcho(Last(out'[c])).ok
            /\ DecodeEcho(Last(out'[c])).content
                   = DecodeEcho(Last(hist'[c])).content
            /\ \A d \in Conns \ {c} : out'[d] = out[d]]_vars

\* C2: whenever a worker reads a payload that is an AddRequest{a, b} whose
\* sum does not overflow (and its write does not fail), exactly one payload
\* is written to that connection, and it decodes as an AddResponse with
\* result a + b.
C2_AddAnswered ==
    [][\A c \in Conns :
         (/\ HandledOk(c)
          /\ DecodeAdd(Last(hist'[c])).ok
          /\ ~Overflows(DecodeAdd(Last(hist'[c])).a,
                        DecodeAdd(Last(hist'[c])).b)) =>
            /\ Len(out'[c]) = Len(out[c]) + 1
            /\ DecodeAddResponse(Last(out'[c])).ok
            /\ DecodeAddResponse(Last(out'[c])).result
                   = DecodeAdd(Last(hist'[c])).a + DecodeAdd(Last(hist'[c])).b]_vars

\* C3: once a stop() that was called after run() started has returned,
\* run() eventually returns Ok(()).
C3_RunReturnsAfterStop == stoppedSinceRun ~> (runPc = "done")

\* C4: every payload written to a connection is the reply to a payload that
\* was read from that same connection.
C4_NoCrossDelivery ==
    \A c \in Conns :
        \A k \in 1..Len(out[c]) :
            \E j \in 1..Len(hist[c]) : out[c][k] = ReplyTo(hist[c][j])

\* Two connections have been served, each with its own reply.
C4_Witness ==
    /\ load = "clients"
    /\ hist[1] = <<EncodeEcho(TextA)>> /\ out[1] = <<EncodeEcho(TextA)>>
    /\ hist[2] = <<EncodeAdd(10, 20)>> /\ out[2] = <<EncodeAdd(30, 0)>>

\* C5: on each connection the replies are written in the order their
\* requests were read, and when a request is read every earlier request
\* has had its reply written (only the last request read can lack its
\* reply, when its write or its addition failed).
C5_OrderedReplies ==
    \A c \in Conns :
        IF wexit[c] \in {"error", "panic"}
           THEN out[c] = RepliesTo(Front(hist[c]))
           ELSE out[c] = RepliesTo(hist[c])

\* Two different requests on one connection have been answered in order.
C5_Witness ==
    /\ hist[1] = <<EncodeAdd(10, 20), EncodeEcho(TextA)>>
    /\ out[1] = <<EncodeAdd(30, 0), EncodeEcho(TextA)>>

\* C6: when a worker reads a non-empty payload that decodes as neither
\* message, nothing is written, handle() returns Ok(()) to the worker's
\* loop and the worker (so the connection) stays; and a valid payload read
\* after an undecodable one is answered with its reply.
C6_UnknownIgnored ==
    [][\A c \in Conns :
         /\ (/\ HandleStep(c)
             /\ Len(hist'[c]) = Len(hist[c]) + 1
             /\ ~DecodeEcho(Last(hist'[c])).ok
             /\ ~DecodeAdd(Last(hist'[c])).ok) =>
                /\ out' = out
                /\ wpc'[c] = "check"
                /\ wexit' = wexit
         /\ (/\ HandledOk(c)
             /\ \E j \in 1..Len(hist[c]) :
                    ~DecodeEcho(hist[c][j]).ok /\ ~DecodeAdd(hist[c][j]).ok
             /\ ReplyTo(Last(hist'[c])) # <<>>) =>
                out'[c] = Append(out[c], ReplyTo(Last(hist'[c])))]_vars

\* An undecodable payload was read, then a valid one, which was answered.
C6_Witness ==
    /\ hist[1] = <<BadPayload, EncodeEcho(TextA)>>
    /\ out[1] = <<EncodeEcho(TextA)>>
    /\ wpc[1] = "check"

\* C7: after a read of a connection has returned zero bytes, the worker
\* does not call handle() (so does not read the connection) again.
C7_NoReadAfterEof ==
    [][\A c \in Conns : lastRead[c] = "eof" => ~HandleStep(c)]_vars

\* C8: once stop() has set the flag false, the flag is never true again.
C8_StoppedIsTerminal == cleared => ~is_running

\* C9: a stop() call that reaches its store leaves the flag false, and a
\* step of a stop() call made while the flag is false (a repeated or a
\* concurrent call) leaves the flag false and changes nothing of the
\* server, its connections and its workers.
C9_StopIdempotent ==
    [][\A t \in Stoppers :
         /\ (stopPc[t] = "store" /\ stopPc'[t] = "returned") => ~is_running'
         /\ (StopActs(t) /\ ~is_running) =>
                /\ ~is_running'
                /\ UNCHANGED << runPc, runs, backlog, acceptFailed, acceptedIn, peer,
                                inbox, sends, faults, workerVars >>]_vars

\* Two stop() calls have returned, the first of them having cleared the
\* flag of a running server.
C9_Witness ==
    /\ stopPc[1] = "returned" /\ stopPc[2] = "returned"
    /\ cleared /\ ~is_running
    /\ runPc \in {"loop", "accept"}

\* C10: a step of stop() changes nothing but the flag: the listener's
\* queue, the run() loop, every connection and every worker are as before.
C10_StopOnlyClearsFlag ==
    [][\A t \in Stoppers :
         StopActs(t) =>
            UNCHANGED << runPc, runs, backlog, acceptFailed, acceptedIn, peer, inbox,
                         sends, faults, wpc, wexit, out, hist, lastRead >>]_vars

\* stop() has cleared the flag and returned while a worker is still alive,
\* inside handle().
C10_Witness ==
    /\ stopPc[1] = "returned" /\ cleared
    /\ \E c \in Conns : wpc[c] = "handle" /\ peer[c] = "open"

\* A connection has no live worker: none was spawned, or its thread ended.
NoWorker(c) == wpc[c] \in {"none", "exited"}

\* C11: once stop() has set the flag false, eventually every worker that
\* was spawned has left its loop.
C11_WorkersExitAfterStop == cleared ~> (\A c \in Conns : NoWorker(c))

\* What does hold of the workers after stop(): they all leave their loops
\* unless a later run() stores true into the flag again.
WorkersExitUnlessRestarted ==
    (cleared /\ ~is_running) ~> (is_running \/ \A c \in Conns : NoWorker(c))

\* A step in which a call of handle() by c's worker ends, its read having
\* ended as how ("data", "eof", "timeout" or "error").
ReadStep(c, how) == HandleStep(c) /\ lastRead'[c] = how

\* C12: when a read fails with an error other than a timeout, the call of
\* handle() ends the worker's loop.
C12_ReadErrorEndsWorker ==
    [][\A c \in Conns : ReadStep(c, "error") => wpc'[c] = "exited"]_vars

\* A step in which handle() has read and decoded a payload of c and the
\* write of its reply fails.
WriteFails(c) ==
    /\ ReadStep(c, "data")
    /\ Len(hist'[c]) = Len(hist[c]) + 1
    /\ faults' = faults + 1

\* C13: when the write of a reply fails, the call of handle() ends the
\* worker's loop with nothing written, and a worker whose loop a failed
\* write has ended reads and writes the connection no more.
C13_WriteErrorEndsWorker ==
    [][\A c \in Conns :
         /\ WriteFails(c) =>
                /\ wpc'[c] = "exited" /\ wexit'[c] = "error"
                /\ out' = out
         /\ wexit[c] = "error" =>
                /\ wpc'[c] = "exited" /\ wexit'[c] = "error"
                /\ hist'[c] = hist[c] /\ out'[c] = out[c]
                /\ lastRead'[c] = lastRead[c] /\ inbox'[c] = inbox[c]]_vars

\* A failed write has ended a worker with a request still unread.
C13_Witness ==
    /\ wexit[1] = "error" /\ wpc[1] = "exited"
    /\ Len(hist[1]) = 1 /\ out[1] = <<>>
    /\ inbox[1] # <<>> /\ is_running

\* C14: a read that times out writes nothing and returns Ok(()) to the
\* worker's loop, which stays alive; and the worker's next check after a
\* timeout, made while the flag is true, calls handle() (reads) again.
C14_TimeoutKeepsWorker ==
    [][\A c \in Conns :
         /\ ReadStep(c, "timeout") =>
                /\ out' = out /\ hist' = hist
                /\ wpc'[c] = "check" /\ wexit' = wexit
         /\ (/\ wpc[c] = "check" /\ lastRead[c] = "timeout"
             /\ wpc'[c] # wpc[c] /\ is_running) =>
                wpc'[c] = "handle"]_vars

\* After a read that timed out the worker is inside handle() again, with
\* a request that came after the timeout waiting to be read.
C14_Witness ==
    /\ wpc[1] = "handle" /\ lastRead[1] = "timeout"
    /\ is_running /\ peer[1] = "open" /\ inbox[1] # <<>>

\* A step in which connection c fails: its worker's initialisation fails,
\* its read fails or finds the peer gone, the write of its reply fails, its
\* addition panics, its payload is undecodable, or its peer closes.
FailureOn(c) ==
    \/ wpc[c] \in {"init", "handle"} /\ wpc'[c] = "exited"
    \/ ReadStep(c, "error")
    \/ ReadStep(c, "eof")
    \/ /\ ReadStep(c, "data")
       /\ Len(hist'[c]) = Len(hist[c]) + 1
       /\ ~DecodeEcho(Last(hist'[c])).ok
       /\ ~DecodeAdd(Last(hist'[c])).ok
    \/ peer[c] = "open" /\ peer'[c] = "closed"

\* C15: a step in which one connection fails changes neither the flag nor
\* the accept loop nor the listener's queue, and changes nothing of any
\* other connection: its worker, what it has read and written, what is
\* waiting to be read, its peer.
C15_FailureIsLocal ==
    [][\A c \in Conns :
         FailureOn(c) =>
            /\ UNCHANGED << is_running, runPc, runs, backlog, acceptFailed,
                            acceptedIn >>
            /\ \A d \in Conns \ {c} :
                   /\ wpc'[d] = wpc[d] /\ wexit'[d] = wexit[d]
                   /\ hist'[d] = hist[d] /\ out'[d] = out[d]
                   /\ lastRead'[d] = lastRead[d]
                   /\ inbox'[d] = inbox[d] /\ peer'[d] = peer[d]]_vars

\* The worker of connection 1 has failed to initialise and that of
\* connection 2 is alive inside handle() with a request to read, the
\* accept loop still running.
C15_Witness ==
    /\ wexit[1] = "init_error"
    /\ wpc[2] = "handle" /\ inbox[2] # <<>> /\ peer[2] = "open"
    /\ is_running /\ runPc \in {"loop", "accept"}

\* A step in which accept() fails with an error other than WouldBlock.
AcceptFails ==
    runPc = "accept" /\ runPc' # "accept" /\ faults' = faults + 1

\* C16: an accept() error spawns no worker, leaves the flag and the
\* listener's queue as they are, and sends run() back to the head of its
\* loop instead of out of it.
C16_AcceptErrorNotFatal ==
    [][AcceptFails =>
          /\ wpc' = wpc /\ acceptedIn' = acceptedIn
          /\ is_running' = is_running /\ backlog' = backlog
          /\ runPc' = "loop"]_vars

\* A connection has been accepted, and its worker spawned, after an
\* accept() error, with the flag true.
C16_Witness ==
    \E c \in Conns :
        /\ acceptedIn[c] = {"after_error"}
        /\ wpc[c] # "none"
        /\ is_running /\ runPc \in {"loop", "accept"}

\* The stream of a connection after a write of the payload r to it.
Written(o, r) == IF r = <<>> THEN o ELSE Append(o, r)

C18_AcceptLoopNeverWaits ==
    /\ runPc \in {"store", "loop", "accept"} => ENABLED RunStep
    /\ (runPc = "accept" /\ backlog # <<>>) => ENABLED RunAcceptOk
    /\ (runPc = "loop" /\ ~is_running) => ENABLED (RunLoop /\ runPc' = "done")

\* run() has seen the cleared flag and returned while two workers, the
\* second accepted while the first was alive, are inside handle().
C18_Witness ==
    /\ runPc = "done" /\ cleared /\ ~is_running
    /\ wpc[1] = "handle" /\ wpc[2] = "handle"

\* C19: a stop() that finds the flag false returns at once and changes
\* nothing: the flag stays false, and the run() thread, the listener, the
\* connections and the workers are as before; and run()'s store, whether
\* or not such a stop() came before it, sets the flag true and enters the
\* accept loop.
C19_StopBeforeRunIsNoOp ==
    [][/\ \A t \in Stoppers :
            (stopPc[t] = "load" /\ stopPc'[t] # "load" /\ ~is_running) =>
               /\ stopPc'[t] = "returned"
               /\ ~is_running' /\ cleared' = cleared
               /\ UNCHANGED << runPc, runs, backlog, acceptFailed,
                               acceptedIn, peerVars, workerVars >>
       /\ (runPc = "store" /\ runPc' # "store") =>
               is_running' /\ runPc' = "loop"]_vars

\* A stop() made before run()'s store has returned without clearing the
\* flag, and run() is in its accept loop with the flag true.
C19_Witness ==
    /\ stopPc[1] = "returned" /\ ~cleared
    /\ is_running /\ runPc = "accept" /\ runs = 1

\* C20: a connection accepted while the flag is false is never served:
\* its worker makes no read and no write.
C20_LateConnectionNotServed ==
    \A c \in Conns :
        "flag_false" \in acceptedIn[c] =>
            /\ wpc[c] # "handle"
            /\ lastRead[c] = "none" /\ hist[c] = <<>> /\ out[c] = <<>>

\* What does hold of such a connection: it is not served as long as run()
\* is not called again.
LateConnectionNotServedInOneRun ==
    \A c \in Conns :
        ("flag_false" \in acceptedIn[c] /\ runs = 1) =>
            /\ wpc[c] # "handle"
            /\ lastRead[c] = "none" /\ hist[c] = <<>> /\ out[c] = <<>>

\* The payloads that EchoMessage::decode or AddRequest::decode accepts.
Decodable == {d.bytes : d \in {e \in Decoded : e.echo.ok \/ e.add.ok}}

\* How many of the payloads read, h, decoded as one of the two messages.
DecodedReads(h) == Cardinality({i \in 1..Len(h) : h[i] \in Decodable})

\* A step in which one response is written to connection c, by a call of
\* handle() whose read returned bytes that decoded.
Responds(c) ==
    /\ out'[c] # <<>> /\ Front(out'[c]) = out[c]
    /\ ReadStep(c, "data")
    /\ Len(hist'[c]) = Len(hist[c]) + 1
    /\ Last(hist'[c]) \in Decodable

\* C21: on every connection the responses written are never more than the
\* non-empty reads that decoded; and a step either leaves what was written
\* to a connection as it is, or adds one response to it in a call of
\* handle() whose read returned bytes that decoded: none is written in a
\* call whose read returned zero bytes, timed out, failed or returned bytes
\* that did not decode.
C21_ResponsesBoundedByDecodedReads ==
    /\ [](\A c \in Conns : Len(out[c]) <= DecodedReads(hist[c]))
    /\ [][\A c \in Conns : out'[c] = out[c] \/ Responds(c)]_vars

\* A connection has read an EchoMessage and then an undecodable payload,
\* and the one response written is the echo: two reads, one response.
C21_Witness ==
    /\ hist[1] = <<EncodeEcho(TextA), BadPayload>>
    /\ DecodedReads(hist[1]) = 1
    /\ out[1] = <<EncodeEcho(TextA)>>
    /\ wpc[1] = "check" /\ lastRead[1] = "data"
====
